---- MODULE Spec2Model ----
(***************************************************************************)
(* A model of the paper-corpus pipeline: the section chunker               *)
(* (Science_ML.split_into_chunks), the per-document extraction and the     *)
(* acquisition loop (Science_ML.process_paper, download_*, main) and the   *)
(* aggregator (Json_combiner.combine_json_files).                          *)
(*                                                                         *)
(* A text is a sequence of lexemes: the whitespace characters "\n", " "    *)
(* and "\t", the colon ":", and words.  A word is a maximal run of         *)
(* characters that are neither whitespace nor a colon; two adjacent words  *)
(* of a sequence stand for their concatenation, which is never one of the  *)
(* six section names.                                                      *)
(***************************************************************************)
EXTENDS Integers, Sequences, FiniteSets, TLC

VARIABLES
    text,        \* split_into_chunks: the argument
    parts,       \* split_into_chunks: the list re.split returned
    chunks,      \* split_into_chunks: the returned list of (chunk_type, chunk_text)
    cpc,         \* split_into_chunks: "input" before the call, "done" after it
    mpc,         \* main: the position of the run
    dom,         \* main: index into DOMAINS of the domain being processed
    src,         \* main: index into SOURCES of the source directory being processed
    todo,        \* main: the file names os.listdir gave that are not yet processed
    batch,       \* download_*: results of the current listing handled so far
    results,     \* results handled in the whole run (bounds the model)
    pdfs,        \* file system: <<domain, source, id>> -> the PDF stored there
    dirs,        \* file system: the <<domain, source>> directories that exist
    json,        \* file system: <<domain, id>> -> the entries of that chunk file
    log,         \* the calls of process_paper so far: [file, entries]
    openDocs,    \* the documents fitz.open returned that were not closed
    fetch,       \* the PDF request made by the last step, NoFetch if none
    directories, \* combine_json_files: the argument, each directory with its listing
    writable,    \* combine_json_files: whether output_path can be created and written
    kpc,         \* combine_json_files: the position of the call
    di,          \* combine_json_files: directories handled so far
    fi,          \* combine_json_files: files of the current directory handled so far
    all_entries, \* combine_json_files: the accumulated list
    total_files, \* combine_json_files: the count of files read
    output,      \* file system: what output_path holds
    writes       \* the number of times output_path was written

chunkVars == <<text, parts, chunks, cpc>>

mainVars ==
    <<mpc, dom, src, todo, batch, results, pdfs, dirs, json, log, openDocs, fetch>>

combineVars ==
    <<directories, writable, kpc, di, fi, all_entries, total_files, output, writes>>

vars == <<chunkVars, mainVars, combineVars>>

----------------------------------------------------------------------------
(* Bounds of the model *)

\* longest enumerated text, in lexemes
MaxLen == 5

\* listing results handled in one run of main
MaxResults == 2

\* longest list of directories handed to combine_json_files
MaxDirs == 3

----------------------------------------------------------------------------
(* Helpers *)

Max(S) == CHOOSE x \in S : \A y \in S : y <= x

Min(S) == CHOOSE x \in S : \A y \in S : x <= y

Range(s) == {s[i] : i \in DOMAIN s}

----------------------------------------------------------------------------
(* Science_ML.split_into_chunks *)

NL == "\n"

section_names ==
    <<"abstract", "introduction", "methods", "results", "discussion", "conclusion">>

general_sections == {"abstract", "introduction", "conclusion"}

specialized_sections == {"methods", "results", "discussion"}

\* str.lower() of one lexeme; the regex flag (?i) compares the same way
lower(w) ==
    CASE w \in {"Abstract", "ABSTRACT"} -> "abstract"
      [] w \in {"Introduction", "INTRODUCTION"} -> "introduction"
      [] w \in {"Methods", "METHODS"} -> "methods"
      [] w \in {"Results", "RESULTS"} -> "results"
      [] w \in {"Discussion", "DISCUSSION"} -> "discussion"
      [] w \in {"Conclusion", "CONCLUSION"} -> "conclusion"
      [] OTHER -> w

lowerText(s) == [i \in DOMAIN s |-> lower(s[i])]

\* what \s of the pattern and str.strip() take for whitespace
IsSpace(c) == c \in {NL, " ", "\t"}

\* (?i)(?:abstract|introduction|methods|results|discussion|conclusion)
IsSectionName(c) == lower(c) \in Range(section_names)

\* str.strip()
strip(s) ==
    LET keep == {i \in DOMAIN s : ~IsSpace(s[i])}
    IN  IF keep = {} THEN <<>> ELSE SubSeq(s, Min(keep), Max(keep))

\* the length of the longest run of whitespace that starts at position i
WsRun(t, i) ==
    LET stop == {j \in i..Len(t) : ~IsSpace(t[j])}
    IN  IF stop = {} THEN Len(t) - i + 1 ELSE Min(stop) - i

\* ^ under re.MULTILINE, at the position before t[i]
AtLineStart(t, i) == i = 1 \/ t[i - 1] = NL

\* $ under re.MULTILINE, at the position before t[i]
AtLineEnd(t, i) == i = Len(t) + 1 \/ t[i] = NL

\* The pattern ^\s*(?:names)\s*:?\s*$ from the position e after the name, with
\* q the position after the whitespace that follows the name: the position
\* after the match, 0 when there is none.  Every \s* is greedy and gives back
\* one character at a time: the colon is taken when it follows that whitespace
\* and the match then ends at the last line end within the whitespace after
\* the colon; without a colon it ends at the last line end within the
\* whitespace after the name.
MatchTail(t, e, q) ==
    LET afterColon == {p \in (q + 1)..(q + 1 + WsRun(t, q + 1)) : AtLineEnd(t, p)}
        afterName == {p \in e..q : AtLineEnd(t, p)}
    IN  IF q <= Len(t) /\ t[q] = ":" /\ afterColon # {} THEN Max(afterColon)
        ELSE IF afterName # {} THEN Max(afterName)
        ELSE 0

\* MatchName with the anchor ^ left out of the pattern
MatchNameUnanchored(t, s, k) ==
    IF k <= Len(t) /\ IsSectionName(t[k])
        THEN MatchTail(t, k + 1, k + 1 + WsRun(t, k + 1))
    ELSE 0

\* the pattern tried at position s, with k the position after the leading
\* whitespace
MatchName(t, s, k) ==
    IF AtLineStart(t, s) /\ k <= Len(t) /\ IsSectionName(t[k])
        THEN MatchTail(t, k + 1, k + 1 + WsRun(t, k + 1))
    ELSE 0

\* the pattern tried at position s: the position after the match, 0 when it
\* does not match there
MatchEndAt(t, s) == MatchName(t, s, s + WsRun(t, s))

\* the matches re.split finds scanning from position pos: <<start, end>> pairs,
\* end exclusive; the scan resumes at the end of each match
RECURSIVE re_finditer(_, _)
matches_from(t, s, e) == <<(<<s, e>>)>> \o re_finditer(t, e)

first_match(t, starts) ==
    IF starts = {} THEN <<>> ELSE matches_from(t, Min(starts), MatchEndAt(t, Min(starts)))

re_finditer(t, pos) == first_match(t, {s \in pos..Len(t) : MatchEndAt(t, s) # 0})

\* the texts around the matches ms
parts_around(t, ms) ==
    [i \in 1..(Len(ms) + 1) |->
        SubSeq(t, IF i = 1 THEN 1 ELSE ms[i - 1][2],
                  IF i = Len(ms) + 1 THEN Len(t) ELSE ms[i][1] - 1)]

\* re.split(pattern, text, flags=re.MULTILINE): the pattern has no capturing
\* group, so the list holds only the text around the matches
re_split(t) == parts_around(t, re_finditer(t, 1))

\* chunk_of with  chunk_type = "general"  in place of  continue
chunk_of_default_general(section_name, section_text) ==
    IF section_name \in {<<n>> : n \in specialized_sections}
        THEN (IF section_text # <<>> THEN <<(<<"specialized", section_text>>)>> ELSE <<>>)
    ELSE (IF section_text # <<>> THEN <<(<<"general", section_text>>)>> ELSE <<>>)

\* one pass of the loop body: the chunk appended for the pair
\* (section_name, section_text), if any
chunk_of(section_name, section_text) ==
    IF section_name \in {<<n>> : n \in general_sections}
        THEN (IF section_text # <<>> THEN <<(<<"general", section_text>>)>> ELSE <<>>)
    ELSE IF section_name \in {<<n>> : n \in specialized_sections}
        THEN (IF section_text # <<>> THEN <<(<<"specialized", section_text>>)>> ELSE <<>>)
    ELSE <<>>

\* the loop  for i in range(0, len(parts) - 1, 2)  from index i (0-based)
RECURSIVE chunk_loop(_, _)
chunk_loop(ps, i) ==
    IF i >= Len(ps) - 1 THEN <<>>
    ELSE chunk_of(lowerText(strip(ps[i + 1])), strip(ps[i + 2])) \o chunk_loop(ps, i + 2)

\* no_section_result without the test of text.strip()
no_section_result_unchecked(stripped) == <<(<<"general", stripped>>)>>

\* the return of the branch  len(parts) <= 1
no_section_result(stripped) ==
    IF stripped # <<>> THEN <<(<<"general", stripped>>)>> ELSE <<>>

chunks_of_parts(t, ps) ==
    IF Len(ps) <= 1 THEN no_section_result(strip(t)) ELSE chunk_loop(ps, 0)

split_into_chunks(t) == chunks_of_parts(t, re_split(t))

----------------------------------------------------------------------------
(* Science_ML: DOMAINS, process_paper and the downloads *)

\* the keys of DOMAINS, in the order main iterates over them
DOMAINS == <<"Materials Science", "Physics", "Computer Science">>

\* for source in ["arxiv", "chemrxiv"]
SOURCES == <<"arxiv", "chemrxiv">>

\* default of the parameter max_results
max_results == 50

EmptyFn == [k \in {} |-> {}]

\* A PDF: fitz.open raises on a corrupt one; page.get_text() raises on page
\* `bad` (0: on none); pages holds the text of each page.
Corrupt == [corrupt |-> TRUE, pages |-> <<>>, bad |-> 0]

BadPage == [corrupt |-> FALSE, pages |-> <<(<<"x">>), (<<"y">>)>>, bad |-> 2]

DocX == [corrupt |-> FALSE, pages |-> <<(<<"x", NL>>), (<<"y">>)>>, bad |-> 0]

DocY == [corrupt |-> FALSE, pages |-> <<(<<" ", "y", NL>>)>>, bad |-> 0]

DocHeadings ==
    [corrupt |-> FALSE, pages |-> <<(<<"Abstract", NL, "x", NL>>), (<<"Methods", NL, "y">>)>>,
     bad |-> 0]

Pdfs == {Corrupt, BadPage, DocX, DocY, DocHeadings}

\* the provider-assigned ids of the listings
Ids == {"p1", "p2"}

\* What requests.get gives: it raises (err), or returns a response with a
\* status code and a body.  The body of a failed response is no PDF.
Responses ==
    {[err |-> TRUE, status |-> 0, content |-> Corrupt],
     [err |-> FALSE, status |-> 404, content |-> Corrupt]}
        \cup {[err |-> FALSE, status |-> 200, content |-> c] : c \in Pdfs}

NoFetch == [source |-> "none", id |-> "none", err |-> FALSE, status |-> 0]

\* text += page.get_text() over the pages
RECURSIVE page_text(_)
page_text(pages) ==
    IF pages = <<>> THEN <<>> ELSE Head(pages) \o page_text(Tail(pages))

\* the JSON entries built from the chunks
json_entries(cs, domain) ==
    [i \in DOMAIN cs |-> [domain |-> domain, chunk_type |-> cs[i][1], text |-> cs[i][2]]]

\* process_paper without its try statement
process_paper_uncaught(pdf, domain) ==
    IF pdf.corrupt THEN [entries |-> <<>>, leaked |-> FALSE, raised |-> TRUE]
    ELSE IF pdf.bad # 0 THEN [entries |-> <<>>, leaked |-> TRUE, raised |-> TRUE]
    ELSE [entries |-> json_entries(split_into_chunks(page_text(pdf.pages)), domain),
          leaked |-> FALSE,
          raised |-> FALSE]

\* process_paper(filepath, domain) on the PDF stored at filepath:
\*   entries: the returned list;
\*   leaked:  the document was opened and doc.close() was not reached;
\*   raised:  an exception left the function (the except clause catches all).
process_paper(pdf, domain) ==
    IF pdf.corrupt THEN [entries |-> <<>>, leaked |-> FALSE, raised |-> FALSE]
    ELSE IF pdf.bad # 0 THEN [entries |-> <<>>, leaked |-> TRUE, raised |-> FALSE]
    ELSE [entries |-> json_entries(split_into_chunks(page_text(pdf.pages)), domain),
          leaked |-> FALSE,
          raised |-> FALSE]

\* download_arxiv_papers, one result whose file does not exist yet:
\*   write:  the file is written with the response's body;
\*   raised: an exception left the function.
arxiv_fetch(resp) ==
    IF resp.err THEN [write |-> FALSE, raised |-> FALSE]
    ELSE IF resp.status = 200 THEN [write |-> TRUE, raised |-> FALSE]
    ELSE [write |-> FALSE, raised |-> FALSE]

\* download_chemrxiv_papers, one item with a pdfUrl whose file does not exist
\* yet: no try, no look at the status code
chemrxiv_fetch(resp) ==
    IF resp.err THEN [write |-> FALSE, raised |-> TRUE]
    ELSE [write |-> TRUE, raised |-> FALSE]

\* main: the entries of one PDF are saved only when the list is not empty
save_entries(js, key, entries) ==
    IF entries # <<>> THEN [k \in DOMAIN js \cup {key} |-> IF k = key THEN entries ELSE js[k]]
    ELSE js

----------------------------------------------------------------------------
(* Json_combiner.combine_json_files *)

\* A JSON file: json.load raises on it (ok = FALSE), or gives a list (isList,
\* items) or another value (value).
BadJson == [ok |-> FALSE, isList |-> FALSE, items |-> <<>>, value |-> ""]

Arr0 == [ok |-> TRUE, isList |-> TRUE, items |-> <<>>, value |-> ""]

Arr2 == [ok |-> TRUE, isList |-> TRUE, items |-> <<"a", "b">>, value |-> ""]

Arr3 == [ok |-> TRUE, isList |-> TRUE, items |-> <<"c", "[d]", "a">>, value |-> ""]

Obj == [ok |-> TRUE, isList |-> FALSE, items |-> <<>>, value |-> "{o}"]

\* A directory: whether os.path.exists holds of it and what glob lists in it
MissingDir == [exists |-> FALSE, files |-> <<>>]

DirSamples ==
    {MissingDir,
     [exists |-> TRUE, files |-> <<>>],
     [exists |-> TRUE, files |-> <<Arr2, Arr0, Arr3>>],
     [exists |-> TRUE, files |-> <<BadJson, Obj>>],
     [exists |-> TRUE, files |-> <<Obj, Arr2>>],
     [exists |-> TRUE, files |-> <<BadJson>>]}

NoOutput == [written |-> FALSE, data |-> <<>>]

\* file_step with  all_entries = data  in place of  all_entries.extend(data)
file_step_assign(all, total, f) ==
    IF ~f.ok THEN [all |-> all, total |-> total, raised |-> FALSE]
    ELSE IF f.isList THEN [all |-> f.items, total |-> total + 1, raised |-> FALSE]
    ELSE [all |-> Append(all, f.value), total |-> total + 1, raised |-> FALSE]

\* file_step without its try statement
file_step_uncaught(all, total, f) ==
    IF ~f.ok THEN [all |-> all, total |-> total, raised |-> TRUE]
    ELSE IF f.isList THEN [all |-> all \o f.items, total |-> total + 1, raised |-> FALSE]
    ELSE [all |-> Append(all, f.value), total |-> total + 1, raised |-> FALSE]

\* the body of  for json_file in json_files  on one file:
\*   raised: an exception left the try statement (the except clause catches all)
file_step(all, total, f) ==
    IF ~f.ok THEN [all |-> all, total |-> total, raised |-> FALSE]
    ELSE IF f.isList THEN [all |-> all \o f.items, total |-> total + 1, raised |-> FALSE]
    ELSE [all |-> Append(all, f.value), total |-> total + 1, raised |-> FALSE]

\* for directory in directories: a directory that does not exist is skipped
\* (continue); TRUE when its files are to be read
enter_directory(d) == d.exists

----------------------------------------------------------------------------
(* The texts the chunker is applied to *)

Alphabet == {NL, " ", ":", "x", "Methods", "abstract"}

ExampleThree ==
    <<"Introduction", NL, "We study X.", NL, "Methods", NL, "We did Y.", NL,
      "Conclusion", NL, "Z.">>

ExampleTwoResults == <<"results", NL, "a", NL, "RESULTS", NL, "b">>

ExampleMidSentence == <<"See", " ", "Methods", " ", "below">>

Texts ==
    UNION {[1..n -> Alphabet] : n \in 0..MaxLen}
        \cup {ExampleThree, ExampleTwoResults, ExampleMidSentence}

----------------------------------------------------------------------------
(* split_into_chunks applied to one text; the values the variables of the
   other two programs keep meanwhile *)

ChunkIdle ==
    /\ text = <<>>
    /\ parts = <<>>
    /\ chunks = <<>>
    /\ cpc = "idle"

MainIdle ==
    /\ mpc = "idle"
    /\ dom = 0
    /\ src = 0
    /\ todo = {}
    /\ batch = 0
    /\ results = 0
    /\ pdfs = EmptyFn
    /\ dirs = {}
    /\ json = EmptyFn
    /\ log = <<>>
    /\ openDocs = {}
    /\ fetch = NoFetch

CombineIdle ==
    /\ directories = <<>>
    /\ writable = FALSE
    /\ kpc = "idle"
    /\ di = 0
    /\ fi = 0
    /\ all_entries = <<>>
    /\ total_files = 0
    /\ output = NoOutput
    /\ writes = 0

ChunkInit ==
    /\ text \in Texts
    /\ parts = <<>>
    /\ chunks = <<>>
    /\ cpc = "input"
    /\ MainIdle
    /\ CombineIdle

SplitIntoChunks ==
    /\ cpc = "input"
    /\ parts' = re_split(text)
    /\ chunks' = split_into_chunks(text)
    /\ cpc' = "done"
    /\ UNCHANGED <<text, mainVars, combineVars>>

ChunkNext == SplitIntoChunks

SpecChunk == ChunkInit /\ [][ChunkNext]_vars

----------------------------------------------------------------------------
(* Science_ML.main *)

MainInit ==
    /\ mpc = "arxiv_start"
    /\ dom = 1
    /\ src = 1
    /\ todo = {}
    /\ batch = 0
    /\ results = 0
    /\ pdfs = EmptyFn
    /\ dirs = {}
    /\ json = EmptyFn
    /\ log = <<>>
    /\ openDocs = {}
    /\ fetch = NoFetch
    /\ ChunkIdle
    /\ CombineIdle

PutFile(fs, key, content) ==
    [k \in DOMAIN fs \cup {key} |-> IF k = key THEN content ELSE fs[k]]

\* download_arxiv_papers: os.makedirs(domain_dir, exist_ok=True)
ArxivStart ==
    /\ mpc = "arxiv_start"
    /\ dirs' = dirs \cup {<<DOMAINS[dom], "arxiv">>}
    /\ batch' = 0
    /\ fetch' = NoFetch
    /\ mpc' = "arxiv"
    /\ UNCHANGED <<dom, src, todo, results, pdfs, json, log, openDocs>>
    /\ UNCHANGED <<chunkVars, combineVars>>

\* one listing result of either source: the file exists already or the item
\* has no pdfUrl (skip), or the PDF is requested and r says what follows
FetchStep(source, id, skip, resp, r) ==
    IF skip
        THEN /\ fetch' = NoFetch
             /\ UNCHANGED <<pdfs, mpc>>
        ELSE /\ fetch' = [source |-> source, id |-> id,
                          err |-> resp.err, status |-> resp.status]
             /\ pdfs' = IF r.write THEN PutFile(pdfs, <<DOMAINS[dom], source, id>>, resp.content)
                        ELSE pdfs
             /\ mpc' = IF r.raised THEN "aborted" ELSE mpc

\* download_arxiv_papers: one pass of  for result in client.results(search)
ArxivResult ==
    /\ mpc = "arxiv"
    /\ batch < max_results
    /\ results < MaxResults
    /\ \E id \in Ids, resp \in Responses :
           FetchStep("arxiv", id, <<DOMAINS[dom], "arxiv", id>> \in DOMAIN pdfs,
                     resp, arxiv_fetch(resp))
    /\ batch' = batch + 1
    /\ results' = results + 1
    /\ UNCHANGED <<dom, src, todo, dirs, json, log, openDocs>>
    /\ UNCHANGED <<chunkVars, combineVars>>

\* download_arxiv_papers: the results are exhausted
ArxivEnd ==
    /\ mpc = "arxiv"
    /\ mpc' = "chemrxiv_start"
    /\ fetch' = NoFetch
    /\ UNCHANGED <<dom, src, todo, batch, results, pdfs, dirs, json, log, openDocs>>
    /\ UNCHANGED <<chunkVars, combineVars>>

\* download_chemrxiv_papers up to the loop: the domain test, os.makedirs and
\* the request of the listing, which raises, or answers with a status that is
\* not 200, or answers with the items
ChemrxivStart ==
    /\ mpc = "chemrxiv_start"
    /\ fetch' = NoFetch
    /\ batch' = 0
    /\ src' = 1
    /\ IF DOMAINS[dom] # "Materials Science"
           THEN /\ mpc' = "listdir"
                /\ UNCHANGED dirs
           ELSE /\ dirs' = dirs \cup {<<DOMAINS[dom], "chemrxiv">>}
                /\ \E listing \in {"error", "status", "items"} :
                       mpc' = CASE listing = "error" -> "aborted"
                                [] listing = "status" -> "listdir"
                                [] OTHER -> "chemrxiv"
    /\ UNCHANGED <<dom, todo, results, pdfs, json, log, openDocs>>
    /\ UNCHANGED <<chunkVars, combineVars>>

\* download_chemrxiv_papers: one pass of  for item in items
ChemrxivItem ==
    /\ mpc = "chemrxiv"
    /\ batch < max_results
    /\ results < MaxResults
    /\ \E id \in Ids, hasPdfUrl \in BOOLEAN, resp \in Responses :
           FetchStep("chemrxiv", id,
                     ~hasPdfUrl \/ <<DOMAINS[dom], "chemrxiv", id>> \in DOMAIN pdfs,
                     resp, chemrxiv_fetch(resp))
    /\ batch' = batch + 1
    /\ results' = results + 1
    /\ UNCHANGED <<dom, src, todo, dirs, json, log, openDocs>>
    /\ UNCHANGED <<chunkVars, combineVars>>

\* download_chemrxiv_papers: the items are exhausted
ChemrxivEnd ==
    /\ mpc = "chemrxiv"
    /\ mpc' = "listdir"
    /\ fetch' = NoFetch
    /\ UNCHANGED <<dom, src, todo, batch, results, pdfs, dirs, json, log, openDocs>>
    /\ UNCHANGED <<chunkVars, combineVars>>

\* main: the next source directory, the next domain, or the end of the run
Advance ==
    IF src < Len(SOURCES)
        THEN /\ src' = src + 1
             /\ mpc' = "listdir"
             /\ UNCHANGED dom
    ELSE IF dom < Len(DOMAINS)
        THEN /\ dom' = dom + 1
             /\ src' = 1
             /\ mpc' = "arxiv_start"
    ELSE /\ mpc' = "done"
         /\ UNCHANGED <<dom, src>>

\* main: a source directory that does not exist is skipped, the names of one
\* that exists are listed
ListSource ==
    /\ mpc = "listdir"
    /\ IF <<DOMAINS[dom], SOURCES[src]>> \notin dirs
           THEN /\ Advance
                /\ UNCHANGED todo
           ELSE /\ todo' = {k[3] : k \in {f \in DOMAIN pdfs :
                                f[1] = DOMAINS[dom] /\ f[2] = SOURCES[src]}}
                /\ mpc' = "process"
                /\ UNCHANGED <<dom, src>>
    /\ UNCHANGED <<batch, results, pdfs, dirs, json, log, openDocs, fetch>>
    /\ UNCHANGED <<chunkVars, combineVars>>

\* main: what follows the call  entries = process_paper(filepath, domain)
\* that gave r for the file id of the current source directory
AfterProcessPaper(id, r) ==
    IF r.raised
        THEN /\ mpc' = "aborted"
             /\ UNCHANGED <<todo, json, log, openDocs>>
        ELSE /\ json' = save_entries(json, <<DOMAINS[dom], id>>, r.entries)
             /\ log' = Append(log, [file |-> <<DOMAINS[dom], SOURCES[src], id>>,
                                    entries |-> r.entries])
             /\ openDocs' = IF r.leaked
                                THEN openDocs \cup {<<DOMAINS[dom], SOURCES[src], id>>}
                            ELSE openDocs
             /\ todo' = todo \ {id}
             /\ UNCHANGED mpc

\* main: one pass of  for filename in os.listdir(source_dir), in the order
\* the listing gives: process_paper, then the chunk file
ProcessFile ==
    /\ mpc = "process"
    /\ \E id \in todo :
           AfterProcessPaper(id, process_paper(pdfs[<<DOMAINS[dom], SOURCES[src], id>>],
                                               DOMAINS[dom]))
    /\ UNCHANGED <<dom, src, batch, results, pdfs, dirs, fetch>>
    /\ UNCHANGED <<chunkVars, combineVars>>

\* main: the listing of the source directory is exhausted
EndSource ==
    /\ mpc = "process"
    /\ todo = {}
    /\ Advance
    /\ UNCHANGED <<todo, batch, results, pdfs, dirs, json, log, openDocs, fetch>>
    /\ UNCHANGED <<chunkVars, combineVars>>

MainNext ==
    \/ ArxivStart
    \/ ArxivResult
    \/ ArxivEnd
    \/ ChemrxivStart
    \/ ChemrxivItem
    \/ ChemrxivEnd
    \/ ListSource
    \/ ProcessFile
    \/ EndSource

SpecMain == MainInit /\ [][MainNext]_vars

----------------------------------------------------------------------------
(* Json_combiner.combine_json_files *)

CombineInit ==
    /\ directories \in UNION {[1..n -> DirSamples] : n \in 0..MaxDirs}
    /\ writable \in BOOLEAN
    /\ kpc = "dirs"
    /\ di = 0
    /\ fi = 0
    /\ all_entries = <<>>
    /\ total_files = 0
    /\ output = NoOutput
    /\ writes = 0
    /\ ChunkIdle
    /\ MainIdle

\* one pass of  for directory in directories  up to the loop over its files
EnterDirectory ==
    /\ kpc = "dirs"
    /\ di < Len(directories)
    /\ di' = di + 1
    /\ fi' = 0
    /\ kpc' = IF enter_directory(directories[di + 1]) THEN "files" ELSE "dirs"
    /\ UNCHANGED <<directories, writable, all_entries, total_files, output, writes>>
    /\ UNCHANGED <<chunkVars, mainVars>>

\* what follows the try statement that gave r
AfterFile(r) ==
    IF r.raised
        THEN /\ kpc' = "raised"
             /\ UNCHANGED <<all_entries, total_files, fi>>
        ELSE /\ all_entries' = r.all
             /\ total_files' = r.total
             /\ fi' = fi + 1
             /\ UNCHANGED kpc

\* one pass of  for json_file in json_files
ReadFile ==
    /\ kpc = "files"
    /\ fi < Len(directories[di].files)
    /\ AfterFile(file_step(all_entries, total_files, directories[di].files[fi + 1]))
    /\ UNCHANGED <<directories, writable, di, output, writes>>
    /\ UNCHANGED <<chunkVars, mainVars>>

\* the files of the directory are exhausted
EndDirectory ==
    /\ kpc = "files"
    /\ fi = Len(directories[di].files)
    /\ kpc' = "dirs"
    /\ UNCHANGED <<directories, writable, di, fi, all_entries, total_files, output, writes>>
    /\ UNCHANGED <<chunkVars, mainVars>>

\* after the loop: os.makedirs of the output directory, then json.dump; either
\* raises when the output path cannot be created or written
WriteOutput ==
    /\ kpc = "dirs"
    /\ di = Len(directories)
    /\ IF writable
           THEN /\ output' = [written |-> TRUE, data |-> all_entries]
                /\ writes' = writes + 1
                /\ kpc' = "done"
           ELSE /\ kpc' = "raised"
                /\ UNCHANGED <<output, writes>>
    /\ UNCHANGED <<directories, writable, di, fi, all_entries, total_files>>
    /\ UNCHANGED <<chunkVars, mainVars>>

CombineNext ==
    \/ EnterDirectory
    \/ ReadFile
    \/ EndDirectory
    \/ WriteOutput

SpecCombine == CombineInit /\ [][CombineNext]_vars

----------------------------------------------------------------------------
(* The three programs together *)

Init == ChunkInit \/ MainInit \/ CombineInit

Next == ChunkNext \/ MainNext \/ CombineNext

Spec == Init /\ [][Next]_vars

----------------------------------------------------------------------------
(* What the specification says of the chunker, stated on the text alone *)

\* the text without its leading whitespace
RECURSIVE TrimLeft(_)
TrimLeft(s) ==
    IF s # <<>> /\ Head(s) \in {NL, " ", "\t"} THEN TrimLeft(Tail(s)) ELSE s

\* the text without its trailing whitespace
RECURSIVE TrimRight(_)
TrimRight(s) ==
    IF s # <<>> /\ s[Len(s)] \in {NL, " ", "\t"}
        THEN TrimRight(SubSeq(s, 1, Len(s) - 1)) ELSE s

Trimmed(s) == TrimRight(TrimLeft(s))

\* the first position of the line that holds position k
LineStartOf(t, k) == Max({i \in 1..k : i = 1 \/ t[i - 1] = NL})

\* the position of the line break that ends the line holding position k
\* (Len(t) + 1 on the last line)
LineEndOf(t, k) == Min({i \in k..(Len(t) + 1) : i = Len(t) + 1 \/ t[i] = NL})

\* Position k holds a recognized heading: a section name, in any case, that is
\* the sole content of its line but for an optional colon after it and
\* optional whitespace around either.
IsHeading(t, k) ==
    /\ k \in 1..Len(t)
    /\ lower(t[k]) \in general_sections \cup specialized_sections
    /\ Trimmed(SubSeq(t, LineStartOf(t, k), k - 1)) = <<>>
    /\ Trimmed(SubSeq(t, k + 1, LineEndOf(t, k) - 1)) \in {<<>>, <<":">>}

HeadingPositions(t) == {k \in 1..Len(t) : IsHeading(t, k)}

\* the trimmed text between the heading at k and the next heading (or the end)
Body(t, k) ==
    LET later == {j \in HeadingPositions(t) : j > k}
        stop == IF later = {} THEN Len(t) ELSE LineStartOf(t, Min(later)) - 1
    IN  Trimmed(SubSeq(t, LineEndOf(t, k), stop))

TypeOf(name) == IF lower(name) \in general_sections THEN "general" ELSE "specialized"

\* one chunk per heading with a non-empty body, in order of appearance
RECURSIVE ChunksFrom(_, _)
ChunksFrom(t, k) ==
    IF k > Len(t) THEN <<>>
    ELSE IF IsHeading(t, k) /\ Body(t, k) # <<>>
        THEN <<(<<TypeOf(t[k]), Body(t, k)>>)>> \o ChunksFrom(t, k + 1)
    ELSE ChunksFrom(t, k + 1)

ExpectedChunks(t) == ChunksFrom(t, 1)

\* C1: a text with at least one heading line gives one chunk per heading with
\* a non-empty body, in order, typed by the heading, holding the trimmed text
\* up to the next heading.  The code returns no chunk at all for such a text.
C1_OneChunkPerHeading ==
    (cpc = "done" /\ HeadingPositions(text) # {}) => chunks = ExpectedChunks(text)

\* C2: a text without a heading line gives exactly one general chunk holding
\* the trimmed text, and no chunk when the trimmed text is empty.
C2_NoHeadingOneGeneralChunk ==
    (cpc = "done" /\ HeadingPositions(text) = {}) =>
        chunks = IF Trimmed(text) = <<>> THEN <<>>
                 ELSE <<(<<"general", Trimmed(text)>>)>>

C2_Witness ==
    /\ cpc = "done"
    /\ HeadingPositions(text) = {}
    /\ Trimmed(text) # text
    /\ chunks = <<(<<"general", Trimmed(text)>>)>>

\* C3: the text is split exactly at its heading lines: every match of the
\* pattern covers one heading and every heading is covered by a match, so a
\* section name inside a sentence never splits and a text whose section names
\* all stand inside sentences is chunked like a text without any.
C3_SplitsExactlyAtHeadingLines ==
    cpc = "done" =>
        LET ms == re_finditer(text, 1)
        IN  /\ Len(parts) = Cardinality(HeadingPositions(text)) + 1
            /\ \A k \in HeadingPositions(text) :
                   \E i \in DOMAIN ms : ms[i][1] <= k /\ k < ms[i][2]
            /\ \A i \in DOMAIN ms :
                   Cardinality({k \in HeadingPositions(text) :
                                    ms[i][1] <= k /\ k < ms[i][2]}) = 1
            /\ (HeadingPositions(text) = {} /\ Trimmed(text) # <<>>) =>
                   (parts = <<text>> /\ Len(chunks) = 1 /\ chunks[1][1] = "general")

C3_Witness ==
    /\ cpc = "done"
    /\ \E k \in DOMAIN text :
           /\ lower(text[k]) \in general_sections \cup specialized_sections
           /\ ~IsHeading(text, k)
    /\ HeadingPositions(text) = {}
    /\ parts = <<text>>
    /\ Len(chunks) = 1

\* C4: a text with N >= 1 heading lines gives at most N chunks, each with a
\* non-empty text, each typed by the heading that precedes its text.
C4_AtMostOneChunkPerHeading ==
    (cpc = "done" /\ HeadingPositions(text) # {}) =>
        /\ Len(chunks) <= Cardinality(HeadingPositions(text))
        /\ \A i \in DOMAIN chunks :
               /\ chunks[i][2] # <<>>
               /\ \E k \in HeadingPositions(text) :
                      /\ chunks[i][1] = TypeOf(text[k])
                      /\ chunks[i][2] = Body(text, k)

C4_Witness ==
    /\ cpc = "done"
    /\ Cardinality(HeadingPositions(text)) >= 2
    /\ \E k \in HeadingPositions(text) : Body(text, k) = <<>>
    /\ \E k \in HeadingPositions(text) : Body(text, k) # <<>>
    /\ Len(chunks) <= Cardinality(HeadingPositions(text))

----------------------------------------------------------------------------
(* What the specification says of the aggregator *)

RECURSIVE ConcatAll(_)
ConcatAll(ss) == IF ss = <<>> THEN <<>> ELSE Head(ss) \o ConcatAll(Tail(ss))

\* what one file adds: the elements of a list, any other value as one
\* element, nothing when it cannot be read
Contribution(f) ==
    IF ~f.ok THEN <<>> ELSE IF f.isList THEN f.items ELSE <<f.value>>

DirContribution(d) ==
    IF ~d.exists THEN <<>>
    ELSE ConcatAll([i \in DOMAIN d.files |-> Contribution(d.files[i])])

ExpectedCombined(ds) == ConcatAll([i \in DOMAIN ds |-> DirContribution(ds[i])])

IsReadable(f) == f.ok

IsPresent(d) == d.exists

\* the directories that exist, each with the files that parse
Readable(ds) ==
    LET present == SelectSeq(ds, IsPresent)
    IN  [i \in DOMAIN present |->
            [exists |-> TRUE, files |-> SelectSeq(present[i].files, IsReadable)]]

RECURSIVE CountFiles(_)
CountFiles(ds) == IF ds = <<>> THEN 0 ELSE Len(Head(ds).files) + CountFiles(Tail(ds))

\* C5: the array written is the concatenation, directory by directory in the
\* order given and file by file in the order listed, of what each file adds:
\* a list adds its elements in order, any other value adds itself.
C5_CombinedIsConcatenation ==
    kpc = "done" =>
        (output.written /\ output.data = ExpectedCombined(directories))

C5_Witness ==
    /\ kpc = "done"
    /\ Len(directories) = 2
    /\ directories[1].files = <<Obj, Arr2>>
    /\ directories[2].files = <<Arr2, Arr0, Arr3>>
    /\ output.data = <<"{o}", "a", "b", "a", "b", "c", "[d]", "a">>

\* C6: a directory that does not exist and a file that cannot be read add
\* nothing and raise nothing: the call raises only when the output itself
\* cannot be written, and otherwise ends with the output written once, holding
\* what the readable files of the existing directories add, all of them
\* counted.
C6_MissingAndUnreadableAreSkipped ==
    /\ writes <= 1
    /\ kpc = "raised" => (~writable /\ di = Len(directories))
    /\ kpc = "done" =>
           /\ writes = 1
           /\ output.written
           /\ output.data = ExpectedCombined(Readable(directories))
           /\ total_files = CountFiles(Readable(directories))

C6_Witness ==
    /\ kpc = "done"
    /\ writes = 1
    /\ Len(directories) = 3
    /\ directories[1] = MissingDir
    /\ directories[2].files = <<BadJson, Obj>>
    /\ directories[3].files = <<Obj, Arr2>>
    /\ output.data = <<"{o}", "{o}", "a", "b">>
    /\ total_files = 3

----------------------------------------------------------------------------
(* What the specification says of the run of main *)

PdfFails(pdf) == pdf.corrupt \/ pdf.bad # 0

Processed == {log[i].file : i \in DOMAIN log}

DomainIndex(d) == CHOOSE i \in DOMAIN DOMAINS : DOMAINS[i] = d

\* main has finished domain d
DomainFinished(d) == mpc = "done" \/ (mpc # "idle" /\ DomainIndex(d) < dom)

\* C7: a request for a PDF that fails (the request raises, or the status is
\* not 2xx) writes no file and does not end the run.  The ChemRxiv download
\* neither catches the exception nor looks at the status.
C7_FailedFetchWritesNothing ==
    [][(fetch'.source # "none" /\ (fetch'.err \/ fetch'.status \notin 200..299))
           => (pdfs' = pdfs /\ mpc' # "aborted")]_vars

\* C8: no document is open once process_paper has returned.  doc.close() is
\* not reached when page.get_text() raises.
C8_NoDocumentLeftOpen == openDocs = {}

\* C9: a PDF that cannot be opened or extracted gives an empty list, leaves
\* every chunk file as it was and leaves main in its loop; processing never
\* ends the run, and a run that ends has handed every PDF of every source
\* directory of every domain to process_paper.
C9_FailedPdfIsSkipped ==
    /\ [][(Len(log') = Len(log) + 1 /\ PdfFails(pdfs[log'[Len(log')].file]))
              => /\ log'[Len(log')].entries = <<>>
                 /\ json' = json
                 /\ mpc' = "process"]_vars
    /\ [][mpc = "process" => mpc' # "aborted"]_vars
    /\ [](mpc = "done" => Processed = DOMAIN pdfs)

C9_Witness ==
    /\ mpc = "done"
    /\ \E i, j \in DOMAIN log :
           /\ i < j
           /\ PdfFails(pdfs[log[i].file])
           /\ log[i].file[1] = "Materials Science"
           /\ log[j].file[1] = "Physics"
           /\ log[j].entries # <<>>
           /\ <<log[i].file[1], log[i].file[3]>> \notin DOMAIN json
           /\ json[<<log[j].file[1], log[j].file[3]>>] = log[j].entries

\* C10: once main has finished a domain, every PDF of the domain that gave at
\* least one chunk has a chunk file holding exactly its chunks.  The chunk
\* file is named by the id alone, so a PDF of the chemrxiv directory replaces
\* the chunk file of the PDF of the arxiv directory with the same id.
C10_EveryDocumentKeepsItsChunkFile ==
    \A i \in DOMAIN log :
        (log[i].entries # <<>> /\ DomainFinished(log[i].file[1])) =>
            /\ <<log[i].file[1], log[i].file[3]>> \in DOMAIN json
            /\ json[<<log[i].file[1], log[i].file[3]>>] = log[i].entries

====
